---- MODULE Spec2Model ----
(***************************************************************************)
(* EduTranslator Plus (src/app.py): the record store (append_log /         *)
(* save_row over pandas CSV files), the assignment directory (the list of  *)
(* a group's assignments and its default selection), the submission       *)
(* workflow (machine draft, Analyze, Submit), the instructor login, the    *)
(* save buttons of the Translate / Explain / Collocations tabs and the     *)
(* quick quiz, as a state machine.                                         *)
(*                                                                         *)
(* Text is a sequence of one-character strings.  A CSV file is the         *)
(* sequence of its data rows, each row a record of cell texts; quoting of  *)
(* delimiters by to_csv / read_csv is transparent and is not modelled.     *)
(* What read_csv does to a cell (type inference per column, empty cell to  *)
(* NaN) and what to_csv prints for a typed cell are modelled.              *)
(*                                                                         *)
(* Lines 105-121 of src/app.py (a second copy of the instructor login,     *)
(* pasted with broken indentation) are not modelled.                       *)
(***************************************************************************)
EXTENDS Integers, Sequences, FiniteSets, TLC

\* ------------------------------------------------------------ bounds
\* Rows a store file may hold before the model stops appending to it.
MaxRows == 2
\* Ticks of the wall clock.
MaxClock == 2
\* Assignments created in the specification of the submission workflow.
MaxFlowAssignments == 1
\* On-demand machine drafts generated for one assignment.
MaxGenerations == 2
\* The quiz score at which the model stops checking answers.
MaxScore == 3

\* ------------------------------------------------------------ text
Empty == << >>

DigitChars == <<"0", "1", "2", "3", "4", "5", "6", "7", "8", "9">>

IsDigit(c) == \E i \in 1..10 : DigitChars[i] = c

DigitVal(c) == (CHOOSE i \in 1..10 : DigitChars[i] = c) - 1

IsSpace(c) == c = " "

RECURSIVE LStrip(_)
LStrip(s) == IF s # Empty /\ IsSpace(Head(s)) THEN LStrip(Tail(s)) ELSE s

RECURSIVE RStrip(_)
RStrip(s) ==
    IF s # Empty /\ IsSpace(s[Len(s)]) THEN RStrip(SubSeq(s, 1, Len(s) - 1)) ELSE s

\* str.strip()
Strip(s) == RStrip(LStrip(s))

AllDigits(s) == s # Empty /\ \A i \in 1..Len(s) : IsDigit(s[i])

RECURSIVE IntVal(_)
IntVal(s) ==
    IF s = Empty THEN 0
    ELSE 10 * IntVal(SubSeq(s, 1, Len(s) - 1)) + DigitVal(s[Len(s)])

\* str(int)
RECURSIVE IntText(_)
IntText(n) ==
    IF n < 10 THEN <<DigitChars[n + 1]>>
    ELSE IntText(n \div 10) \o <<DigitChars[(n % 10) + 1]>>

\* ------------------------------------------------------------ CSV cells
\* A cell of a DataFrame: a Python str, an int, a float with a zero
\* fraction, or NaN.
StrCell(s) == [t |-> "str", n |-> 0, s |-> s]
IntCell(n) == [t |-> "int", n |-> n, s |-> Empty]
FloatCell(n) == [t |-> "float", n |-> n, s |-> Empty]
NaN == [t |-> "nan", n |-> 0, s |-> Empty]

\* The parser's integer conversion skips surrounding blanks.
IsIntText(s) == AllDigits(Strip(s))

\* A float as to_csv prints one with a zero fraction: digits "." zeros.
IsFloatText(s) ==
    LET u == Strip(s)
    IN  \E k \in 2..(Len(u) - 1) :
            /\ u[k] = "."
            /\ AllDigits(SubSeq(u, 1, k - 1))
            /\ \A i \in (k + 1)..Len(u) : u[i] = "0"

FloatVal(s) ==
    LET u == Strip(s)
        k == CHOOSE i \in 1..Len(u) : u[i] = "."
    IN  IntVal(SubSeq(u, 1, k - 1))

\* read_csv's dtype of a column, from the texts of its cells.
ColumnType(texts) ==
    LET present == texts \ {Empty}
    IN  IF present = {} THEN "float"
        ELSE IF \A v \in present : IsIntText(v)
             THEN (IF Empty \in texts THEN "float" ELSE "int")
        ELSE IF \A v \in present : IsIntText(v) \/ IsFloatText(v) THEN "float"
        ELSE "object"

ReadCell(type, text) ==
    IF text = Empty THEN NaN
    ELSE IF type = "int" THEN IntCell(IntVal(Strip(text)))
    ELSE IF type = "float"
         THEN FloatCell(IF IsIntText(text) THEN IntVal(Strip(text)) ELSE FloatVal(text))
    ELSE StrCell(text)

\* pd.read_csv on the rows of a file: a DataFrame, a sequence of rows of
\* typed cells.
ReadCsv(rows) ==
    IF rows = << >> THEN << >>
    ELSE LET cols == DOMAIN rows[1]
             type == [c \in cols |-> ColumnType({rows[i][c] : i \in 1..Len(rows)})]
         IN  [i \in 1..Len(rows) |-> [c \in cols |-> ReadCell(type[c], rows[i][c])]]

\* What to_csv prints for a cell.
CellText(cell) ==
    IF cell.t = "str" THEN cell.s
    ELSE IF cell.t = "int" THEN IntText(cell.n)
    ELSE IF cell.t = "float" THEN IntText(cell.n) \o <<".", "0">>
    ELSE Empty

\* df.to_csv(path, index=False)
ToCsv(df) ==
    [i \in 1..Len(df) |-> [c \in DOMAIN df[i] |-> CellText(df[i][c])]]

\* pd.DataFrame([row]): the values are the Python strings of the row.
NewFrame(row) == <<[c \in DOMAIN row |-> StrCell(row[c])]>>

\* ------------------------------------------------------------ record store
Kinds == {"assignments", "submissions", "translations", "reflections", "glossary"}

NoFile == [exists |-> FALSE, rows |-> << >>]

\* save_row / append_log, first half: os.path.exists and read_csv.
NoFrame == [some |-> FALSE, df |-> << >>]

SaveRowRead(file) ==
    IF file.exists THEN [some |-> TRUE, df |-> ReadCsv(file.rows)] ELSE NoFrame

\* save_row / append_log, second half: concat and to_csv of the whole frame.
SaveRowWrite(old, row) ==
    [exists |-> TRUE,
     rows |-> ToCsv(IF old.some THEN old.df \o NewFrame(row) ELSE NewFrame(row))]

\* The whole of save_row with nothing running in between.
SaveRow(file, row) == SaveRowWrite(SaveRowRead(file), row)

\* ------------------------------------------------------------ inputs
Sessions == {"s1", "s2"}

\* get_session_id: the first 8 characters of a uuid4, one per session.
SessionId(s) == IF s = "s1" THEN <<"a", "1">> ELSE <<"b", "2">>

\* The two options of the "Mode" radio.
ModeTranslate == <<"T">>
ModePostEdit == <<"P">>

\* str.startswith("Post-edit") on a mode cell.
IsPostEdit(cell) == cell.t = "str" /\ cell.s # Empty /\ Head(cell.s) = "P"

\* What llm() may return: a generated text, or the "LLM call failed" text.
LlmResults == {<<"M">>, <<"!">>}

\* How the call of the chat-completion service inside llm() ends.
LlmOutcomes == {"ok", "raises"}

\* An llm() that lets the exception of the service through.
LlmUncaught(outcome) ==
    [raised |-> outcome = "raises",
     text |-> IF outcome = "raises" THEN Empty ELSE <<"M">>]

\* llm(): the stripped content of the response; an exception of the
\* service is caught and turned into the "LLM call failed" text.
Llm(outcome) ==
    [raised |-> FALSE,
     text |-> IF outcome = "raises" THEN <<"!">> ELSE <<"M">>]

\* Texts typed into the group field of the sidebar.
GroupInputs == {Empty, <<" ">>, <<"A">>, <<" ", "A">>, <<"0", "7">>, <<"7">>}

\* Texts typed into the draft, final-version and reflection areas.
TextInputs == {Empty, <<" ">>, <<"A">>}

Langs == {"English", "Arabic"}

\* The instructor password of the secrets file: absent, empty, or a text.
PwdConfigs ==
    {[set |-> FALSE, v |-> Empty], [set |-> TRUE, v |-> Empty], [set |-> TRUE, v |-> <<"p">>]}

PwdInputs == {Empty, <<"p">>}

\* ------------------------------------------------------------ state
VARIABLES
    files,          \* kind -> the store file of that kind
    clock,          \* the wall clock, in seconds
    now_cache,      \* the st.cache_data entry of now_str
    instr_pwd,      \* INSTR_PWD
    is_instructor,  \* session -> st.session_state.is_instructor
    pc,             \* session -> "idle", or "saving" between read and write
    pending,        \* session -> the append in progress
    quiz,           \* session -> quiz_items, quiz_score, quiz_total of st.session_state
    created,        \* history: the assignments created, by code number
    out             \* what the most recent script run displayed

vars == <<files, clock, now_cache, instr_pwd, is_instructor, quiz, pc, pending, created, out>>

\* quiz_items = [], quiz_score = 0, quiz_total = 0
NoQuiz == [items |-> << >>, score |-> 0, total |-> 0]

NoPending == [kind |-> "none", old |-> NoFrame, row |-> << >>, out |-> [op |-> "none"]]

Init ==
    /\ files = [k \in Kinds |-> NoFile]
    /\ clock = 0
    /\ now_cache = [set |-> FALSE, v |-> 0]
    /\ instr_pwd \in PwdConfigs
    /\ is_instructor = [s \in Sessions |-> FALSE]
    /\ quiz = [s \in Sessions |-> NoQuiz]
    /\ pc = [s \in Sessions |-> "idle"]
    /\ pending = [s \in Sessions |-> NoPending]
    /\ created = << >>
    /\ out = [op |-> "none"]

\* ------------------------------------------------------------ time
\* now_str is wrapped in st.cache_data and takes no argument: the first
\* call computes the time, every later call returns the cached text.
NowStr(cache, clk) == IF cache.set THEN cache.v ELSE clk

NowCache(cache, clk) == IF cache.set THEN cache ELSE [set |-> TRUE, v |-> clk]

\* The text of a timestamp: "t" and the second it names.
TsText(n) == <<"t">> \o IntText(n)

\* pd.to_datetime(errors='coerce') of a timestamp cell; -1 is NaT.
ToDatetime(cell) ==
    IF cell.t = "str" /\ Len(cell.s) >= 2 /\ Head(cell.s) = "t" /\ AllDigits(Tail(cell.s))
    THEN IntVal(Tail(cell.s))
    ELSE -1

Tick ==
    /\ clock < MaxClock
    /\ clock' = clock + 1
    /\ UNCHANGED <<files, now_cache, instr_pwd, quiz, is_instructor, pc, pending, created, out>>

\* ------------------------------------------------------------ save_row in two steps
\* A handler that reaches save_row / append_log: the file is read now and
\* written in a later step of the same script run.
BeginSave(s, kind, row, shown) ==
    /\ Len(files[kind].rows) < MaxRows
    /\ pc' = [pc EXCEPT ![s] = "saving"]
    /\ pending' = [pending EXCEPT ![s] =
                      [kind |-> kind, old |-> SaveRowRead(files[kind]),
                       row |-> row, out |-> shown]]

\* A write that reads the file again under a lock.
WriteStepLocked(current, old, row) == SaveRowWrite(SaveRowRead(current), row)

\* to_csv replaces whatever the file holds now by the frame built from
\* the earlier read.
WriteStep(current, old, row) == SaveRowWrite(old, row)

\* A write to the assignments store that also clears the submissions store.
StoresAfterWriteCascading(fs, kind, old, row) ==
    [k \in Kinds |->
        IF k = kind THEN WriteStep(fs[k], old, row)
        ELSE IF kind = "assignments" /\ k = "submissions" /\ fs[k].exists
             THEN [exists |-> TRUE, rows |-> << >>]
        ELSE fs[k]]

\* df.to_csv(path): the file at path is replaced, every other file is
\* left alone.
StoresAfterWrite(fs, kind, old, row) ==
    [fs EXCEPT ![kind] = WriteStep(fs[kind], old, row)]

FinishSave(s) ==
    /\ pc[s] = "saving"
    /\ LET p == pending[s]
       IN  /\ files' = StoresAfterWrite(files, p.kind, p.old, p.row)
           /\ out' = p.out
    /\ pc' = [pc EXCEPT ![s] = "idle"]
    /\ pending' = [pending EXCEPT ![s] = NoPending]
    /\ UNCHANGED <<clock, now_cache, instr_pwd, quiz, is_instructor, created>>

\* ------------------------------------------------------------ instructor login
\* An unlock that only compares the input with the configured value.
UnlockAcceptedUnconfigured(cfg, ipwd) == ipwd = cfg.v

\* "if INSTR_PWD and ipwd == INSTR_PWD"
UnlockAccepted(cfg, ipwd) == cfg.set /\ cfg.v # Empty /\ ipwd = cfg.v

Unlock(s) ==
    /\ pc[s] = "idle"
    /\ ~is_instructor[s]
    /\ \E ipwd \in PwdInputs :
        IF UnlockAccepted(instr_pwd, ipwd)
        THEN /\ is_instructor' = [is_instructor EXCEPT ![s] = TRUE]
             /\ out' = [op |-> "unlock", s |-> s, ok |-> TRUE, ipwd |-> ipwd]
        ELSE /\ is_instructor' = is_instructor
             /\ out' = [op |-> "unlock", s |-> s, ok |-> FALSE, ipwd |-> ipwd]
    /\ UNCHANGED <<files, clock, now_cache, instr_pwd, quiz, pc, pending, created>>

Lock(s) ==
    /\ pc[s] = "idle"
    /\ is_instructor[s]
    /\ is_instructor' = [is_instructor EXCEPT ![s] = FALSE]
    /\ out' = [op |-> "lock", s |-> s]
    /\ UNCHANGED <<files, clock, now_cache, instr_pwd, quiz, pc, pending, created>>

\* ------------------------------------------------------------ create assignment
\* History of an assignment for which no draft was generated on demand.
NoneGenerated == [count |-> 0, first |-> Empty]

\* new_code: (group_code or "ASSGN").split()[0] raises IndexError when the
\* group field holds only blanks.
NewCodeRaises(group_code) == group_code # Empty /\ Strip(group_code) = Empty

\* The code of the n-th assignment created: a base, "-" and 4 hex digits
\* of a fresh uuid; never empty and never a number.
CodeText(n) == <<"c">> \o IntText(n)

CodeNumber(text) == IntVal(Tail(text))

AssignmentRow(ts, code, title, mode, text, mt_draft, group_code) ==
    [timestamp |-> ts, code |-> code, title |-> title, mode |-> mode,
     text |-> text, mt_draft |-> mt_draft, group |-> group_code]

\* The machine draft stored with a new assignment.
CreateMtDraft(mode, show_mt, llm_out) ==
    IF mode = ModePostEdit /\ show_mt THEN llm_out ELSE Empty

CreateAssignment(s, groups, modes, replies, limit) ==
    /\ pc[s] = "idle"
    /\ is_instructor[s]
    /\ \E group_code \in groups, as_title \in {Empty, <<"A">>}, as_text \in {Empty, <<"A">>},
          as_mode \in modes, show_mt \in BOOLEAN, llm_out \in replies :
        IF as_title = Empty \/ as_text = Empty
        THEN /\ out' = [op |-> "create", s |-> s, result |-> "fill title and text"]
             /\ UNCHANGED <<files, now_cache, pc, pending, created>>
        ELSE IF NewCodeRaises(group_code)
        THEN /\ out' = [op |-> "create", s |-> s, result |-> "exception"]
             /\ UNCHANGED <<files, now_cache, pc, pending, created>>
        ELSE LET n == Len(created) + 1
                 row == AssignmentRow(TsText(NowStr(now_cache, clock)), CodeText(n),
                                      as_title, as_mode, as_text,
                                      CreateMtDraft(as_mode, show_mt, llm_out), group_code)
             IN  /\ Len(created) < limit
                 /\ BeginSave(s, "assignments", row,
                              [op |-> "create", s |-> s, result |-> "created", code |-> n,
                               kind |-> "assignments", row |-> row])
                 /\ now_cache' = NowCache(now_cache, clock)
                 /\ created' = Append(created, [group |-> group_code, at |-> clock,
                                                mode |-> as_mode, mt |-> row.mt_draft,
                                                gen |-> NoneGenerated])
                 /\ UNCHANGED <<files, out>>
    /\ UNCHANGED <<clock, instr_pwd, quiz, is_instructor>>

\* ------------------------------------------------------------ assignment directory
\* Series.fillna("")
FillNa(cell) == IF cell.t = "nan" THEN StrCell(Empty) ELSE cell

\* A read path that leaves the guard out.
StoreExistsUnchecked(file) == TRUE

\* os.path.exists(path), the guard in front of every pd.read_csv.
StoreExists(file) == file.exists

\* pd.read_csv raises FileNotFoundError on a path that does not exist.
ReadRaises(file) == ~file.exists

\* assignments_for_group without the "if g:" guard.
AssignmentsForGroupUnguarded(file, group_code) ==
    LET g == Strip(group_code)
        SameGroup(r) == FillNa(r.group) = StrCell(g)
    IN  IF StoreExists(file) THEN SelectSeq(ReadCsv(file.rows), SameGroup) ELSE << >>

\* assignments_for_group: empty unless the file exists and the stripped
\* group field is non-empty; then the rows whose group equals it.
AssignmentsForGroup(file, group_code) ==
    LET g == Strip(group_code)
        SameGroup(r) == FillNa(r.group) = StrCell(g)
    IN  IF StoreExists(file) /\ g # Empty THEN SelectSeq(ReadCsv(file.rows), SameGroup) ELSE << >>

\* sort_values('timestamp') after to_datetime: ascending, NaT last.  The
\* default sort is not stable, so rows with equal timestamps may come out
\* in any order: every ordering the sort may produce.
SortKeyLeq(a, b) ==
    LET ka == ToDatetime(a.timestamp)
        kb == ToDatetime(b.timestamp)
    IN  kb = -1 \/ (ka # -1 /\ ka <= kb)

SortValues(df) ==
    LET n == Len(df)
        perms == {p \in [1..n -> 1..n] : \A i, j \in 1..n : i # j => p[i] # p[j]}
        sorted == {p \in perms : \A i \in 1..(n - 1) : SortKeyLeq(df[p[i]], df[p[i + 1]])}
    IN  {[i \in 1..n |-> df[p[i]]] : p \in sorted}

\* idx_default = len(options) - 1: the last option (1-based here).
IdxDefault(options) == Len(options)

\* The rows a selectbox over the frame lets the user pick.
Rows(df) == {df[i] : i \in 1..Len(df)}

CodesOf(df) == [i \in 1..Len(df) |-> CodeNumber(df[i].code.s)]

\* The student's assignment list (the student view, and the instructor's
\* "Do Assignment" tab, which holds the same code).
StudentView(s, groups) ==
    /\ pc[s] = "idle"
    /\ \E group_code \in groups :
        IF StoreExists(files["assignments"]) /\ ReadRaises(files["assignments"])
        THEN out' = [op |-> "list", s |-> s, g |-> group_code, result |-> "exception",
                     options |-> << >>, default |-> 0]
        ELSE \E listed \in SortValues(AssignmentsForGroup(files["assignments"], group_code)) :
                out' = [op |-> "list", s |-> s, g |-> group_code,
                        result |-> IF listed = << >> THEN "none found" ELSE "listed",
                        options |-> CodesOf(listed),
                        default |-> IF listed = << >> THEN 0
                                    ELSE CodesOf(listed)[IdxDefault(listed)]]
    /\ UNCHANGED <<files, clock, now_cache, instr_pwd, quiz, is_instructor, pc, pending, created>>

\* ------------------------------------------------------------ submission workflow
\* str(x) of a cell, as an f-string prints it.
PyStr(cell) == IF cell.t = "nan" THEN <<"n", "a", "n">> ELSE CellText(cell)

\* Python truth of "not mt" for a machine-draft cell.
Falsy(cell) ==
    \/ cell.t = "str" /\ cell.s = Empty
    \/ cell.t \in {"int", "float"} /\ cell.n = 0

\* r["mode"].startswith raises AttributeError on a cell that is not a str.
ModeRaises(r) == r.mode.t # "str"

\* A view that shows the machine draft before a first draft is typed.
MachineDraftShownAlways(r, stud) == IsPostEdit(r.mode)

\* Whether the "Machine draft" area is displayed.
MachineDraftShown(r, stud) == IsPostEdit(r.mode) /\ Strip(stud) # Empty

\* The translation call made while the selected assignment is rendered.
MachineDraftCalls(r, stud) ==
    IF MachineDraftShown(r, stud) /\ Falsy(r.mt_draft)
    THEN <<[fn |-> "translate", args |-> <<PyStr(r.text)>>]>>
    ELSE << >>

\* The value of the "Machine draft" area: the text generated now when
\* "not mt" holds, else the stored cell cast to str.
MachineDraftText(r, llm_text) ==
    IF Falsy(r.mt_draft) THEN llm_text ELSE PyStr(r.mt_draft)

\* The selected assignment as one script run renders it.
Render(r, stud, mt_outcome) ==
    LET calls == MachineDraftCalls(r, stud)
        reply == Llm(mt_outcome)
        shown == MachineDraftShown(r, stud)
    IN  [result |-> IF ModeRaises(r) \/ (calls # << >> /\ reply.raised)
                    THEN "exception" ELSE "rendered",
         mt_shown |-> shown,
         mt_text |-> IF shown THEN MachineDraftText(r, reply.text) ELSE Empty,
         calls |-> calls]

\* How the translation call of a rendering may end: no call, no outcome.
DraftOutcomes(r, stud) ==
    IF MachineDraftCalls(r, stud) = << >> THEN {"ok"} ELSE LlmOutcomes

\* How the feedback call of an Analyze may end.
FeedbackOutcomes(post) == IF Strip(post) = Empty THEN {"ok"} ELSE LlmOutcomes

\* The history of on-demand drafts after a run that rendered assignment
\* n: how many were generated, and the first of them.
Generated(hist, n, view) ==
    IF view.calls # << >> /\ view.result = "rendered"
    THEN [hist EXCEPT ![n].gen =
             [count |-> @.count + 1,
              first |-> IF @.count = 0 THEN view.mt_text ELSE @.first]]
    ELSE hist

CanGenerate(n, view) == view.calls = << >> \/ created[n].gen.count < MaxGenerations

\* A rerun of the student view caused by typing in the first-draft area.
ViewAssignment(s, groups, drafts) ==
    /\ pc[s] = "idle"
    /\ \E group_code \in groups :
        \E r \in Rows(AssignmentsForGroup(files["assignments"], group_code)),
           stud \in drafts :
          \E mt_outcome \in DraftOutcomes(r, stud) :
            LET n == CodeNumber(r.code.s)
                view == Render(r, stud, mt_outcome)
            IN  /\ CanGenerate(n, view)
                /\ out' = [op |-> "view", s |-> s, code |-> n, stud |-> stud,
                            result |-> view.result, view |-> view]
                /\ created' = Generated(created, n, view)
    /\ UNCHANGED <<files, clock, now_cache, instr_pwd, quiz, is_instructor, pc, pending>>

\* An Analyze that falls back on the first draft when the final text is blank.
AnalyzeCallsWithDraftFallback(r, stud, post, tgt) ==
    MachineDraftCalls(r, stud)
    \o (IF Strip(post) # Empty \/ Strip(stud) # Empty
        THEN <<[fn |-> "classify",
                args |-> <<PyStr(r.text), IF Strip(post) # Empty THEN post ELSE stud, tgt>>]>>
        ELSE << >>)

\* "Analyze my errors & create exercises": the calls of llm() in that run.
AnalyzeCalls(r, stud, post, tgt) ==
    MachineDraftCalls(r, stud)
    \o (IF Strip(post) # Empty
        THEN <<[fn |-> "classify", args |-> <<PyStr(r.text), post, tgt>>]>>
        ELSE << >>)

\* What the Analyze handler leaves on the page: nothing when the final
\* text is blank, else the text llm() returned.
AnalyzeReport(view, post, reply) ==
    IF view.result = "exception" THEN [result |-> "exception", report |-> Empty]
    ELSE IF Strip(post) = Empty THEN [result |-> "nothing", report |-> Empty]
    ELSE IF reply.raised THEN [result |-> "exception", report |-> Empty]
    ELSE [result |-> "report", report |-> reply.text]

Analyze(s, groups, drafts, finals) ==
    /\ pc[s] = "idle"
    /\ \E group_code \in groups :
        \E r \in Rows(AssignmentsForGroup(files["assignments"], group_code)),
           stud \in drafts, post \in finals, tgt \in Langs :
          \E mt_outcome \in DraftOutcomes(r, stud), fb_outcome \in FeedbackOutcomes(post) :
            LET n == CodeNumber(r.code.s)
                view == Render(r, stud, mt_outcome)
                shown == AnalyzeReport(view, post, Llm(fb_outcome))
            IN  /\ CanGenerate(n, view)
                /\ out' = [op |-> "analyze", s |-> s, code |-> n, g |-> group_code,
                            source |-> PyStr(r.text), stud |-> stud, post |-> post,
                            tgt |-> tgt, calls |-> AnalyzeCalls(r, stud, post, tgt),
                            view |-> view, failed |-> fb_outcome = "raises",
                            result |-> shown.result, report |-> shown.report]
                /\ created' = Generated(created, n, view)
    /\ UNCHANGED <<files, clock, now_cache, instr_pwd, quiz, is_instructor, pc, pending>>

\* A Submit that asks for feedback before it saves.
SubmitCallsWithFeedback(r, stud, post) ==
    MachineDraftCalls(r, stud)
    \o <<[fn |-> "classify", args |-> <<PyStr(r.text), post>>]>>

\* "Submit assignment": the calls of llm() in that run.
SubmitCalls(r, stud, post) == MachineDraftCalls(r, stud)

SubmitRow(ts, r, student_name, group_code, session_id, stud, post, refl) ==
    [timestamp |-> ts, code |-> PyStr(r.code), student |-> student_name,
     group |-> group_code, session |-> session_id,
     first_draft |-> stud, final |-> post, reflection |-> refl]

\* A Submit that wants a final text and refuses a second submission.
SubmitValidated(stud, post, already) == Strip(post) # Empty /\ ~already

\* Whether the Submit click reaches save_row: the button alone decides.
SubmitAccepted(stud, post, already) == TRUE

\* The submissions a frame holds from one session for one assignment code.
AlreadySubmitted(file, session_id, code) ==
    file.exists /\ \E i \in 1..Len(file.rows) :
        file.rows[i].session = session_id /\ file.rows[i].code = code

Submit(s, groups, drafts, finals, refls) ==
    /\ pc[s] = "idle"
    /\ \E group_code \in groups :
        \E r \in Rows(AssignmentsForGroup(files["assignments"], group_code)),
           stud \in drafts, post \in finals, refl \in refls :
              \E mt_outcome \in DraftOutcomes(r, stud) :
                LET n == CodeNumber(r.code.s)
                    view == Render(r, stud, mt_outcome)
                    row == SubmitRow(TsText(NowStr(now_cache, clock)), r, Empty,
                                     group_code, SessionId(s), stud, post, refl)
                    already == AlreadySubmitted(files["submissions"], SessionId(s), row.code)
                IN  /\ CanGenerate(n, view)
                    /\ created' = Generated(created, n, view)
                    /\ IF view.result = "exception"
                       THEN /\ out' = [op |-> "submit", s |-> s, code |-> n, result |-> "exception",
                                       stud |-> stud, post |-> post, again |-> already,
                                       view |-> view]
                            /\ UNCHANGED <<files, now_cache, pc, pending>>
                       ELSE IF SubmitAccepted(stud, post, already)
                       THEN /\ BeginSave(s, "submissions", row,
                                   [op |-> "submit", s |-> s, code |-> n, result |-> "submitted",
                                    kind |-> "submissions", row |-> row, stud |-> stud,
                                    post |-> post, again |-> already,
                                    before |-> Len(files["submissions"].rows),
                                    columns |-> DOMAIN row,
                                    calls |-> SubmitCalls(r, stud, post), view |-> view])
                            /\ now_cache' = NowCache(now_cache, clock)
                            /\ UNCHANGED <<files, out>>
                       ELSE /\ out' = [op |-> "submit", s |-> s, code |-> n, result |-> "rejected",
                                       stud |-> stud, post |-> post, again |-> already,
                                       view |-> view]
                            /\ UNCHANGED <<files, now_cache, pc, pending>>
    /\ UNCHANGED <<clock, instr_pwd, quiz, is_instructor>>

\* ------------------------------------------------------------ translate tab
TranslationRow(ts, group_code, session_id, text) ==
    [timestamp |-> ts, group |-> group_code, session |-> session_id, text |-> text]

\* "Translate": with a non-blank text the run ends by logging the event.
Translate(s, groups, texts) ==
    /\ pc[s] = "idle"
    /\ \E group_code \in groups, text \in texts :
        IF Strip(text) # Empty
        THEN /\ LET row == TranslationRow(TsText(NowStr(now_cache, clock)), group_code,
                                          SessionId(s), text)
                IN  BeginSave(s, "translations", row,
                              [op |-> "translate", s |-> s, result |-> "logged",
                               kind |-> "translations", row |-> row])
             /\ now_cache' = NowCache(now_cache, clock)
             /\ UNCHANGED <<files, out>>
        ELSE /\ out' = [op |-> "translate", s |-> s, result |-> "nothing"]
             /\ UNCHANGED <<files, now_cache, pc, pending>>
    /\ UNCHANGED <<clock, instr_pwd, quiz, is_instructor, created>>

\* ------------------------------------------------------------ nested buttons
\* st.button(label) in the script run that follows a click: True for the
\* button that was clicked, False for every other button.
ButtonPressed(clicked, label) == clicked = label

\* Whether a run reaches append_log(reflections.csv): inside
\* "if run_btn and text.strip()", inside "if st.button('Save reflection')".
ReflectionSaved(clicked, text) ==
    /\ ButtonPressed(clicked, "Translate")
    /\ Strip(text) # Empty
    /\ ButtonPressed(clicked, "Save reflection")

ReflectionRow(ts, group_code, session_id, text, reflection) ==
    [timestamp |-> ts, group |-> group_code, session |-> session_id,
     text |-> text, reflection |-> reflection]

\* A click on "Save reflection", the button a Translate run left on the
\* page.
SaveReflection(s, groups, texts) ==
    /\ pc[s] = "idle"
    /\ out.op = "translate" /\ out.s = s /\ out.result = "logged"
    /\ \E group_code \in groups, reflection \in texts :
        LET text == out.row.text
            before == Len(files["reflections"].rows)
        IN  IF ReflectionSaved("Save reflection", text)
            THEN /\ BeginSave(s, "reflections",
                              ReflectionRow(TsText(NowStr(now_cache, clock)), group_code,
                                            SessionId(s), text, reflection),
                              [op |-> "save reflection", s |-> s, result |-> "saved",
                               before |-> before])
                 /\ now_cache' = NowCache(now_cache, clock)
                 /\ UNCHANGED <<files, out>>
            ELSE /\ out' = [op |-> "save reflection", s |-> s, result |-> "nothing",
                            before |-> before]
                 /\ UNCHANGED <<files, now_cache, pc, pending>>
    /\ UNCHANGED <<clock, instr_pwd, quiz, is_instructor, created>>

\* "Explain" and the "Generate" of the collocations tab: with a non-blank
\* headword the reply of llm() is shown next to a "Save to My Glossary"
\* button.
Lookup(s, tab, texts) ==
    /\ pc[s] = "idle"
    /\ \E lemma \in texts, outcome \in LlmOutcomes :
        out' = IF Strip(lemma) # Empty
               THEN [op |-> "lookup", s |-> s, tab |-> tab, result |-> "shown",
                     lemma |-> lemma, notes |-> Llm(outcome).text]
               ELSE [op |-> "lookup", s |-> s, tab |-> tab, result |-> "nothing",
                     lemma |-> lemma, notes |-> Empty]
    /\ UNCHANGED <<files, clock, now_cache, instr_pwd, quiz, is_instructor, pc, pending, created>>

Explain(s, texts) == Lookup(s, "Explain", texts)

Generate(s, texts) == Lookup(s, "Generate", texts)

\* Whether a run reaches append_log(glossary.csv): inside
\* "if st.button(tab) and lemma.strip()", inside the save button's "if".
GlossarySaved(clicked, tab, lemma) ==
    /\ ButtonPressed(clicked, tab)
    /\ Strip(lemma) # Empty
    /\ ButtonPressed(clicked, "Save to My Glossary")

GlossaryRow(ts, group_code, session_id, lemma, notes) ==
    [timestamp |-> ts, group |-> group_code, session |-> session_id,
     lemma |-> lemma, notes |-> notes]

\* A click on "Save to My Glossary", the button an Explain or Generate
\* run left on the page.
SaveGlossary(s, groups) ==
    /\ pc[s] = "idle"
    /\ out.op = "lookup" /\ out.s = s /\ out.result = "shown"
    /\ \E group_code \in groups :
        LET before == Len(files["glossary"].rows)
        IN  IF GlossarySaved("Save to My Glossary", out.tab, out.lemma)
            THEN /\ BeginSave(s, "glossary",
                              GlossaryRow(TsText(NowStr(now_cache, clock)), group_code,
                                          SessionId(s), out.lemma, out.notes),
                              [op |-> "save glossary", s |-> s, result |-> "saved",
                               before |-> before])
                 /\ now_cache' = NowCache(now_cache, clock)
                 /\ UNCHANGED <<files, out>>
            ELSE /\ out' = [op |-> "save glossary", s |-> s, result |-> "nothing",
                            before |-> before]
                 /\ UNCHANGED <<files, now_cache, pc, pending>>
    /\ UNCHANGED <<clock, instr_pwd, quiz, is_instructor, created>>

\* ------------------------------------------------------------ quick quiz
\* str.lower() on the letters the quiz texts use.
LowerChar(c) == IF c = "A" THEN "a" ELSE IF c = "B" THEN "b" ELSE c

Lower(t) == [i \in 1..Len(t) |-> LowerChar(t[i])]

McqItem == [type |-> "mcq", options |-> <<(<<"A">>), (<<"B">>)>>, answer |-> <<"B">>]

FitbItem == [type |-> "fitb", options |-> << >>, answer |-> <<"A">>]

\* What llm() may return to "Create quiz": a text json.loads rejects, or
\* a JSON object with a list of items.
QuizReplies ==
    {[json |-> FALSE, items |-> << >>],
     [json |-> TRUE, items |-> <<McqItem>>],
     [json |-> TRUE, items |-> <<McqItem, FitbItem>>]}

\* json.loads(raw) and data.get("items", []); [] when parsing raises.
QuizParse(raw) == IF raw.json THEN raw.items ELSE << >>

CreateQuiz(s, texts) ==
    /\ pc[s] = "idle"
    /\ \E target \in texts, raw \in QuizReplies :
        IF Strip(target) # Empty
        THEN LET items == QuizParse(raw)
             IN  /\ quiz' = [quiz EXCEPT ![s] =
                                [items |-> items, score |-> 0, total |-> Len(items)]]
                 /\ out' = [op |-> "create quiz", s |-> s,
                             result |-> IF raw.json THEN "quiz" ELSE "raw output"]
        ELSE /\ quiz' = quiz
             /\ out' = [op |-> "create quiz", s |-> s, result |-> "nothing"]
    /\ UNCHANGED <<files, clock, now_cache, instr_pwd, is_instructor, pc, pending, created>>

\* What the student may have picked or typed for an item.
Answers(it) ==
    IF it.type = "mcq" THEN {it.options[i] : i \in 1..Len(it.options)}
    ELSE {Empty, <<"a">>, <<" ", "A">>, <<"b">>}

\* The comparison of a Check: exact for a choice, stripped and lowered
\* for a typed answer.
IsCorrect(it, ans) ==
    IF it.type = "mcq" THEN ans = it.answer
    ELSE Lower(Strip(ans)) = Lower(Strip(it.answer))

\* quiz_score += 1 on a correct answer.
ScoreAfterCheck(score, total, correct) == IF correct THEN score + 1 ELSE score

\* A click on the "Check" button of item i.
Check(s) ==
    /\ pc[s] = "idle"
    /\ quiz[s].items # << >>
    /\ \E i \in 1..Len(quiz[s].items) :
        \E ans \in Answers(quiz[s].items[i]) :
            LET correct == IsCorrect(quiz[s].items[i], ans)
                score == ScoreAfterCheck(quiz[s].score, quiz[s].total, correct)
            IN  /\ score <= MaxScore
                /\ quiz' = [quiz EXCEPT ![s].score = score]
                /\ out' = [op |-> "check", s |-> s, item |-> i, correct |-> correct,
                            score |-> score, total |-> quiz[s].total]
    /\ UNCHANGED <<files, clock, now_cache, instr_pwd, is_instructor, pc, pending, created>>

\* ------------------------------------------------------------ read paths
\* A table shown from a store file: "exception" when read_csv raises,
\* "no data yet" when the file is skipped, else its rows.
ShowStore(file) ==
    IF StoreExists(file)
    THEN (IF ReadRaises(file) THEN [result |-> "exception", rows |-> 0]
          ELSE [result |-> "data", rows |-> Len(ReadCsv(file.rows))])
    ELSE [result |-> "no data yet", rows |-> 0]

\* The "Submissions (Teacher)" tab.
TeacherView(s) ==
    /\ pc[s] = "idle"
    /\ is_instructor[s]
    /\ out' = [op |-> "submissions", s |-> s, shown |-> ShowStore(files["submissions"])]
    /\ UNCHANGED <<files, clock, now_cache, instr_pwd, quiz, is_instructor, pc, pending, created>>

\* The "Teacher Dashboard" tab: translations.csv and glossary.csv.
Dashboard(s) ==
    /\ pc[s] = "idle"
    /\ out' = [op |-> "dashboard", s |-> s,
               translations |-> ShowStore(files["translations"]),
               glossary |-> ShowStore(files["glossary"])]
    /\ UNCHANGED <<files, clock, now_cache, instr_pwd, quiz, is_instructor, pc, pending, created>>

\* One section of the portfolio: the rows of the caller's session.  For a
\* reflections row r['reflection'][:500] raises TypeError unless the cell
\* is a str.
PortfolioSection(file, session_id, sliced) ==
    IF ~StoreExists(file) THEN [result |-> "skipped", rows |-> << >>]
    ELSE IF ReadRaises(file) THEN [result |-> "exception", rows |-> << >>]
    ELSE LET Mine(r) == r.session = StrCell(session_id)
             mine == SelectSeq(ReadCsv(file.rows), Mine)
         IN  IF sliced /\ \E i \in 1..Len(mine) : mine[i].reflection.t # "str"
             THEN [result |-> "exception", rows |-> << >>]
             ELSE [result |-> "written", rows |-> mine]

\* "Generate portfolio (Markdown)"
Portfolio(s) ==
    /\ pc[s] = "idle"
    /\ LET refs == PortfolioSection(files["reflections"], SessionId(s), TRUE)
           glos == PortfolioSection(files["glossary"], SessionId(s), FALSE)
       IN  /\ out' = [op |-> "portfolio", s |-> s, reflections |-> refs,
                      glossary |-> IF refs.result = "exception"
                                   THEN [result |-> "skipped", rows |-> << >>] ELSE glos]
           /\ now_cache' = NowCache(now_cache, clock)
    /\ UNCHANGED <<files, clock, instr_pwd, quiz, is_instructor, pc, pending, created>>

\* "Download my CSV logs (ZIP)": the files that exist are added.
ZipExport(s) ==
    /\ pc[s] = "idle"
    /\ LET members == {k \in Kinds : StoreExists(files[k])}
       IN  out' = [op |-> "zip", s |-> s, members |-> members,
                   result |-> IF \E k \in members : ReadRaises(files[k])
                              THEN "exception" ELSE "archive"]
    /\ UNCHANGED <<files, clock, now_cache, instr_pwd, quiz, is_instructor, pc, pending, created>>

\* ------------------------------------------------------------ specifications
OneGroup == {<<"A">>}

OneText == {<<"A">>}

NarrowTexts == {Empty, <<"A">>}

StoreGroups == {Empty, <<"A">>, <<"0", "7">>}

ListGroups == {<<"A">>, <<"7">>}

Modes == {ModeTranslate, ModePostEdit}

OneReply == {<<"M">>}

\* Two sessions, each script run interleaved with the other's at the
\* read and the write of save_row.
Next ==
    \E s \in Sessions :
        \/ Unlock(s)
        \/ CreateAssignment(s, OneGroup, {ModeTranslate}, LlmResults, MaxRows)
        \/ FinishSave(s)
        \/ Translate(s, OneGroup, OneText)

Spec == Init /\ [][Next]_vars

\* One session: the record store under a single writer.
NextStore ==
    \/ Unlock("s1")
    \/ CreateAssignment("s1", StoreGroups, Modes, LlmResults, MaxRows)
    \/ FinishSave("s1")
    \/ Submit("s1", StoreGroups, NarrowTexts, OneText, {Empty})
    \/ StudentView("s1", ListGroups)

SpecStore == Init /\ [][NextStore]_vars

\* One session: the submission workflow on the assignments of one group.
NextFlow ==
    \/ Unlock("s1")
    \/ CreateAssignment("s1", OneGroup, Modes, OneReply, MaxFlowAssignments)
    \/ FinishSave("s1")
    \/ Analyze("s1", OneGroup, OneText, TextInputs)
    \/ Submit("s1", OneGroup, NarrowTexts, {Empty}, {Empty})

SpecFlow == Init /\ [][NextFlow]_vars

\* One session that creates assignments and lists them as a student.
NextDir ==
    \/ Unlock("s1")
    \/ Lock("s1")
    \/ CreateAssignment("s1", GroupInputs, {ModeTranslate}, LlmResults, MaxRows)
    \/ FinishSave("s1")
    \/ StudentView("s1", GroupInputs)

SpecDir == Init /\ [][NextDir]_vars

\* One session: the machine draft of the student view.  The translation
\* made at creation may be the text "0".
DraftReplies == {<<"M">>, <<"0">>}

NextDraft ==
    \/ Unlock("s1")
    \/ CreateAssignment("s1", OneGroup, Modes, DraftReplies, MaxFlowAssignments)
    \/ FinishSave("s1")
    \/ ViewAssignment("s1", OneGroup, TextInputs)
    \/ Analyze("s1", OneGroup, OneText, OneText)
    \/ Submit("s1", OneGroup, OneText, OneText, {Empty})

SpecDraft == Init /\ [][NextDraft]_vars

\* One session on the Translate, Explain, Collocations, Quick Quiz and
\* Export tabs.
NextSession ==
    \/ Translate("s1", OneGroup, NarrowTexts)
    \/ FinishSave("s1")
    \/ SaveReflection("s1", OneGroup, NarrowTexts)
    \/ Explain("s1", NarrowTexts)
    \/ Generate("s1", NarrowTexts)
    \/ SaveGlossary("s1", OneGroup)
    \/ CreateQuiz("s1", NarrowTexts)
    \/ Check("s1")
    \/ Portfolio("s1")

SpecSession == Init /\ [][NextSession]_vars

\* The same with the wall clock running.
NextTime ==
    \/ Tick
    \/ Unlock("s1")
    \/ CreateAssignment("s1", OneGroup, {ModeTranslate}, LlmResults, MaxRows)
    \/ FinishSave("s1")
    \/ StudentView("s1", OneGroup)

SpecTime == Init /\ [][NextTime]_vars

\* One session and every read path.
NextRead ==
    \/ Unlock("s1")
    \/ Lock("s1")
    \/ CreateAssignment("s1", OneGroup, {ModeTranslate}, LlmResults, MaxRows)
    \/ FinishSave("s1")
    \/ Submit("s1", OneGroup, OneText, OneText, {Empty})
    \/ Translate("s1", OneGroup, OneText)
    \/ StudentView("s1", OneGroup)
    \/ TeacherView("s1")
    \/ Dashboard("s1")
    \/ Portfolio("s1")
    \/ ZipExport("s1")

SpecRead == Init /\ [][NextRead]_vars

\* ------------------------------------------------------------ assignment directory: claims
\* The group typed by the creator of the assignment with code number n.
GroupOf(n) == created[n].group

\* The second at which the assignment with code number n was created.
CreatedAt(n) == created[n].at

\* C1 (as stated): an assignment created under group g1 is never listed
\* for a student who entered a different text g2, the two texts compared
\* exactly as typed.
C1_ListedOnlyForExactGroup ==
    out.op = "list" =>
        \A i \in 1..Len(out.options) : GroupOf(out.options[i]) = out.g

\* C2: a student whose group field is empty or blank is shown an empty
\* assignment list, whatever the assignments store holds.
C2_BlankGroupListsNothing ==
    (out.op = "list" /\ Strip(out.g) = Empty) =>
        (out.options = << >> /\ out.result = "none found")

\* C2 witness: a blank group was listed while the store holds an
\* assignment that was created with an empty group.
C2_Witness ==
    /\ out.op = "list"
    /\ Strip(out.g) = Empty
    /\ files["assignments"].exists
    /\ \E i \in 1..Len(files["assignments"].rows) :
           files["assignments"].rows[i].group = Empty

Idle == \A s \in Sessions : pc[s] = "idle"

\* C3: a write puts back the rows its own read saw plus the new row,
\* whatever other sessions appended between that read and the write.
C3_WriteKeepsOnlyRowsRead ==
    [][\A s \in Sessions :
          (pc[s] = "saving" /\ pc'[s] = "idle") =>
              Len(files'[pending[s].kind].rows) = Len(pending[s].old.df) + 1]_vars

\* C3 witness: two creations have completed, no append is in progress,
\* and the assignments store holds one row: an update was lost.
C3_LostUpdate ==
    /\ Idle
    /\ Len(created) = 2
    /\ Len(files["assignments"].rows) = 1

\* C4 (as stated): right after an append by the only writer, the last row
\* read back equals the appended row (an empty cell read back as NaN
\* counted as the empty text it was written from).
C4_ReadBackLastRow ==
    (Idle /\ out.op \in {"create", "submit"} /\ out.result \in {"created", "submitted"}) =>
        LET df == ReadCsv(files[out.kind].rows)
        IN  /\ df # << >>
            /\ \A c \in DOMAIN out.row : FillNa(df[Len(df)][c]) = StrCell(out.row[c])

IsPrefix(a, b) == Len(a) <= Len(b) /\ SubSeq(b, 1, Len(a)) = a

\* C5 (as stated): under a single writer every change of a store adds
\* exactly one row and leaves the rows it held unchanged.
C5_AppendOnly ==
    [][\A k \in Kinds :
          files'[k] # files[k] =>
              /\ Len(files'[k].rows) = Len(files[k].rows) + 1
              /\ IsPrefix(files[k].rows, files'[k].rows)]_vars

\* ------------------------------------------------------------ read paths: claims
\* C6: a read path that finds its store file missing ends with an empty
\* result and never with an exception.
C6_AbsentStoreReadsEmpty ==
    /\ (out.op = "list" /\ ~files["assignments"].exists) =>
           (out.result = "none found" /\ out.options = << >>)
    /\ (out.op = "submissions" /\ ~files["submissions"].exists) =>
           out.shown = [result |-> "no data yet", rows |-> 0]
    /\ (out.op = "dashboard" /\ ~files["translations"].exists) =>
           out.translations = [result |-> "no data yet", rows |-> 0]
    /\ (out.op = "dashboard" /\ ~files["glossary"].exists) =>
           out.glossary = [result |-> "no data yet", rows |-> 0]
    /\ (out.op = "portfolio" /\ ~files["reflections"].exists) =>
           out.reflections = [result |-> "skipped", rows |-> << >>]
    /\ (out.op = "portfolio" /\ ~files["glossary"].exists) =>
           out.glossary = [result |-> "skipped", rows |-> << >>]
    /\ out.op = "zip" =>
           (out.result = "archive" /\ out.members = {k \in Kinds : files[k].exists})

\* C6 witness: the teacher's submissions view ran while submissions.csv
\* did not exist and other store files did.
C6_Witness ==
    /\ out.op = "submissions"
    /\ ~files["submissions"].exists
    /\ files["assignments"].exists
    /\ files["translations"].exists

\* ------------------------------------------------------------ submission workflow: claims
ClassifyCalls(calls) == SelectSeq(calls, LAMBDA c : c.fn = "classify")

C9_SubmitGeneratesFeedback ==
    out.op = "submit" =>
        (ClassifyCalls(out.calls) # << >> /\ "feedback" \in out.columns)

\* C9 (amended): the run of a Submit never invokes the Feedback Requester,
\* and the row written has no feedback column.
C9_SubmitWithoutFeedback ==
    out.op = "submit" =>
        /\ ClassifyCalls(out.calls) = << >>
        /\ "feedback" \notin out.columns
        /\ DOMAIN files["submissions"].rows[Len(files["submissions"].rows)] = out.columns

\* C9 witness: a row was submitted in a run without any call of llm().
C9_Witness ==
    /\ out.op = "submit"
    /\ out.result = "submitted"
    /\ out.calls = << >>
    /\ files["submissions"].exists

\* C10 (as stated): every Analyze invokes the Feedback Requester with the
\* source text, the final text when that is non-empty and the first draft
\* otherwise, and the target language.
C10_AnalyzeAlwaysInvokes ==
    out.op = "analyze" =>
        ClassifyCalls(out.calls) =
            <<[fn |-> "classify",
               args |-> <<out.source, IF out.post # Empty THEN out.post ELSE out.stud,
                          out.tgt>>]>>

\* C10 (amended): an Analyze invokes the Feedback Requester exactly when
\* the final text is non-blank, and then with the source text, the final
\* text and the target language; the first draft is never sent.
C10_AnalyzeNeedsFinalText ==
    out.op = "analyze" =>
        ClassifyCalls(out.calls) =
            IF Strip(out.post) # Empty
            THEN <<[fn |-> "classify", args |-> <<out.source, out.post, out.tgt>>]>>
            ELSE << >>

\* C10 witness: an Analyze with an empty final text and a non-empty
\* first draft made no call.
C10_Witness ==
    /\ out.op = "analyze"
    /\ out.post = Empty
    /\ out.stud # Empty
    /\ out.calls = << >>

\* C11: when the generation service raises during an Analyze, the run
\* ends normally with the "LLM call failed" text shown as the report; no
\* store file changes, the session is not left inside a save, and the
\* assignment is still listed for the group, so that Analyze and Submit
\* can be clicked again.
C11_AnalyzeFailureIsShown ==
    [][(out'.op = "analyze" /\ out'.failed /\ out' # out) =>
          /\ out'.result = "report"
          /\ out'.report = <<"!">>
          /\ out'.view.result = "rendered"
          /\ files' = files
          /\ pc'[out'.s] = "idle"
          /\ \E r \in Rows(AssignmentsForGroup(files'["assignments"], out'.g)) :
                 CodeNumber(r.code.s) = out'.code]_vars

\* C11 witness: an Analyze whose feedback call failed has shown the
\* placeholder while the submissions store holds no row.
C11_Witness ==
    /\ out.op = "analyze"
    /\ out.failed
    /\ out.report = <<"!">>
    /\ ~files["submissions"].exists

\* ------------------------------------------------------------ machine draft: claims
Rendered == out.op \in {"view", "analyze", "submit"}

C13_MissingFieldGetsDefault ==
    Rendered =>
        /\ out.result # "exception"
        /\ (out.view.mt_shown /\ created[out.code].mt = Empty) =>
               /\ out.view.calls # << >>
               /\ out.view.mt_text \in {Llm(o).text : o \in LlmOutcomes}

\* C17: the machine draft is displayed exactly when the assignment was
\* created in post-edit mode and the first draft is non-blank; in every
\* other run nothing is displayed and the translation service is not
\* called for it.
C17_DraftShownAfterFirstDraft ==
    Rendered =>
        /\ out.view.mt_shown <=>
               (created[out.code].mode = ModePostEdit /\ Strip(out.stud) # Empty)
        /\ ~out.view.mt_shown => (out.view.calls = << >> /\ out.view.mt_text = Empty)

\* C17 witness: a post-edit assignment viewed with a first draft of one
\* blank: no machine draft on the page.
C17_Witness ==
    /\ out.op = "view"
    /\ created[out.code].mode = ModePostEdit
    /\ out.stud = <<" ">>
    /\ ~out.view.mt_shown

\* ------------------------------------------------------------ stores: claims
\* C14: a step changes at most one store file, the one the finishing
\* append was made to; an append to the assignments store leaves the
\* submissions store as it was.
C14_AppendTouchesOneStore ==
    [][\A k \in Kinds :
          files'[k] # files[k] =>
              /\ \E s \in Sessions : pc[s] = "saving" /\ pc'[s] = "idle" /\ pending[s].kind = k
              /\ \A j \in Kinds \ {k} : files'[j] = files[j]]_vars

\* C14 witness: a second assignment with the title of the first was
\* created after a submission for the first was stored; the submission
\* row still holds the code of the first.
C14_Witness ==
    /\ Idle
    /\ out.op = "create" /\ out.result = "created" /\ out.code = 2
    /\ Len(files["assignments"].rows) = 2
    /\ files["assignments"].rows[1].title = files["assignments"].rows[2].title
    /\ Len(files["submissions"].rows) >= 1
    /\ files["submissions"].rows[1].code = CodeText(1)

\* C16 (as stated): a click on "Save reflection" after a Translate leaves
\* the reflections store one row longer, the new row holding the caller's
\* session id; a click on "Save to My Glossary" after an Explain or a
\* Generate does the same to the glossary store.
C16_SaveAppendsOneRow ==
    /\ out.op = "save reflection" =>
           LET rows == files["reflections"].rows
           IN  Len(rows) = out.before + 1 /\ rows[Len(rows)].session = SessionId(out.s)
    /\ out.op = "save glossary" =>
           LET rows == files["glossary"].rows
           IN  Len(rows) = out.before + 1 /\ rows[Len(rows)].session = SessionId(out.s)

\* ------------------------------------------------------------ instructor gate: claims
PasswordConfigured == instr_pwd.set /\ instr_pwd.v # Empty

\* C18: the instructor flag of a session is set only while a non-empty
\* password is configured, it is turned on only by an Unlock whose input
\* equals that password, and an append to the assignments store is made
\* only by a session whose flag is set; without a configured password no
\* flag is set and no assignment exists.
C18_OnlyInstructorCreates ==
    /\ [](\A s \in Sessions :
            /\ is_instructor[s] => PasswordConfigured
            /\ (pc[s] = "saving" /\ pending[s].kind = "assignments") => is_instructor[s])
    /\ [](~PasswordConfigured => (~files["assignments"].exists /\ created = << >>))
    /\ [][\A s \in Sessions :
            (~is_instructor[s] /\ is_instructor'[s]) =>
                (out'.op = "unlock" /\ out'.s = s /\ out'.ok /\ out'.ipwd = instr_pwd.v)]_vars

\* C18 witness: an assignment was stored by a session whose flag is set.
C18_Witness ==
    /\ out.op = "create" /\ out.result = "created"
    /\ is_instructor[out.s]
    /\ files["assignments"].exists

\* ------------------------------------------------------------ quick quiz: claims
\* C19 (as stated): in every session the quiz score lies between 0 and
\* the quiz total, and the total is the number of items of the quiz.
C19_ScoreWithinTotal ==
    \A s \in Sessions :
        /\ 0 <= quiz[s].score
        /\ quiz[s].score <= quiz[s].total
        /\ quiz[s].total = Len(quiz[s].items)

====
